---- MODULE Spec2Model ----
(***************************************************************************)
(* Browser-side session layer of the restaurant assistant.                 *)
(*                                                                         *)
(* Two state machines share the window:                                    *)
(*   - the analytics view (reports script, its older static variant and    *)
(*     the Turbo page-lifecycle handlers): SpecReports;                    *)
(*   - the chat surface (chatbot.js: response routing and the order        *)
(*     session): SpecChat.                                                 *)
(* Each handler of the source is one action; a handler runs to its first   *)
(* await without interleaving (single-threaded event loop), and each       *)
(* continuation after a network round-trip is an action of its own.        *)
(***************************************************************************)
EXTENDS Integers, Sequences, FiniteSets, TLC

\* ------------------------------------------------------------------ bounds
\* Largest value of Date.now() the model lets the clock reach.
MaxClock == 3
\* Largest number of order-list loads (initReports calls that pass the
\* page check) or static chart renders in one behaviour.
MaxLoads == 3

\* The three chart targets (canvas ids) of the analytics view.
Targets == {"revenueChart", "ordersChart", "growthChart"}

VARIABLES
    \* ---- analytics view
    clock,                    \* Date.now()
    reportsScript,            \* which reports script the page carries
    nav,                      \* position in the Turbo visit cycle
    onReports,                \* document.getElementById('revenueChart') exists
    reportsLoadToken,         \* window.reportsLoadToken (0: undefined)
    reportsChartsInitialized, \* window.reportsChartsInitialized
    loads,                    \* the order-list fetches, in launch order
    staticRenders,            \* chart sets the static script has created
    chartRef,                 \* window.revenueChart / ordersChart / growthChart
    live,                     \* chart instances created and not destroyed
    loading,                  \* #reportsLoading is displayed
    emptyState,               \* canvas hidden behind the no-data placeholder
    summary,                  \* sales summary cells: load shown (0: template)
    totalRevenueText,         \* #totalRevenueText
    topCategories,            \* #topCategoriesContainer
    reportData,               \* window.reportData: load stored (0: {})
    made,                     \* every chart set created so far
    minted,                   \* tokens minted in the current page activation
    \* ---- chat surface
    conversationHistory,      \* {role, content} pairs sent as context
    orderState,               \* items, customerName, tableNumber, isCollectingOrder
    messages,                 \* rows of #messages, in document order
    forms,                    \* confirmation forms rendered into #messages
    chats,                    \* the /api/chat requests, in launch order
    places,                   \* the /api/orders/place requests, in launch order
    txtDisabled,              \* #txt is disabled
    txtValue,                 \* the text held by #txt
    typing,                   \* #typing-indicator is displayed
    timers,                   \* replies waiting in a setTimeout(.., 500)
    faults,                   \* uncaught exceptions raised so far
    chatbotScriptInitialized, \* window.chatbotScriptInitialized
    handlerSets,              \* times chatbot.js registered its listeners
    \* ---- message rendering and configuration
    msgText,                  \* the text handed to postMessage
    bubble,                   \* what the bubble of that message holds
    elements,                 \* configurable elements the document holds
    configLoad,               \* the /api/config request: pending or settled
    chatbotConfig,            \* the cached configuration
    ui,                       \* accent, menu preview, name, font
    \* ---- main frame
    mainFrame,                \* the document holds #main-frame
    mainFrameInteractive,     \* its pointer-events is not 'none'
    frameInteractionTimer,    \* id of the restore timer (0: null)
    restoreTimers,            \* ids of the restore timers that are pending
    timerIds,                 \* restore timers created so far
    fetches,                  \* the Turbo fetch requests, in launch order
    \* ---- bookkeeping
    ev                        \* the handler that ran last, and on what

reportVars == <<clock, reportsScript, nav, onReports, reportsLoadToken,
                reportsChartsInitialized, loads, staticRenders, chartRef, live,
                loading, emptyState, summary, totalRevenueText, topCategories,
                reportData, made, minted>>

scriptVars == <<chatbotScriptInitialized, handlerSets>>

chatVars == <<conversationHistory, orderState, messages, forms, chats, places,
              txtDisabled, txtValue, typing, timers, faults, scriptVars>>

frameVars == <<mainFrame, mainFrameInteractive, frameInteractionTimer,
               restoreTimers, timerIds, fetches>>

surfaceVars == <<msgText, bubble, elements, configLoad, chatbotConfig, ui,
                 frameVars>>

vars == <<reportVars, chatVars, surfaceVars, ev>>

Ev(kind, id, arg) == [kind |-> kind, id |-> id, arg |-> arg]

\* ================================================================ analytics

NoCharts == [t \in Targets |-> 0]
NoLive == [t \in Targets |-> {}]
AllShown == [t \in Targets |-> FALSE]
AllEmpty == [t \in Targets |-> TRUE]

\* The outcomes of one order-list fetch: a non-empty order list, an empty
\* one, or a rejection (network error, unparsable body).
LoadOutcomes == {"data", "empty", "fail"}

\* Mutant of IsStale: the token check is missing.
IsStale_NoCheck(loadToken) == FALSE

\* if (window.reportsLoadToken !== loadToken) return;
IsStale(loadToken) == reportsLoadToken # loadToken

\* Mutant of destroyReportsCharts: the references are nulled, the charts
\* are not destroyed.
destroyReportsCharts_NoDestroy(cs) == [ref |-> NoCharts, live |-> cs.live]

\* The targets whose chart a teardown calls destroy() on: those whose
\* window reference is set (if (window.revenueChart && typeof
\* window.revenueChart.destroy === 'function') ...).
destroyCalls(cs) == {t \in Targets : cs.ref[t] # 0}

\* Mutant of destroyReportsCharts: the charts are destroyed, the references
\* are kept.
destroyReportsCharts_KeepsRef(cs) ==
    [ref  |-> cs.ref,
     live |-> [t \in Targets |-> cs.live[t] \ {cs.ref[t]}]]

\* destroyReportsCharts(): every chart the window still references is
\* destroyed and its reference nulled.
destroyReportsCharts(cs) ==
    [ref  |-> NoCharts,
     live |-> [t \in Targets |-> cs.live[t] \ {cs.ref[t]}]]

\* new Chart(ctx, ...) for each target whose canvas is in the document;
\* the instance is stored in the window without looking at what was there.
createCharts(cs, id) ==
    IF onReports
    THEN [ref  |-> [t \in Targets |-> id],
          live |-> [t \in Targets |-> cs.live[t] \cup {id}]]
    ELSE cs

\* The chart sets created so far, one more created or not.
madeAfter(id) == IF onReports THEN made \cup {id} ELSE made

Charts == [ref |-> chartRef, live |-> live]

\* initReports(), called on a document that holds #revenueChart or not
\* (present) and whose loading indicator is displayed or not (shown), in an
\* activation that minted `before` tokens so far: page check, token,
\* re-initialisation guard, loading indicator, fetch launched, flag set.
initReports(present, shown, before) ==
    IF ~present
    THEN /\ loading' = shown
         /\ minted' = before
         /\ UNCHANGED <<reportsLoadToken, reportsChartsInitialized, loads,
                        chartRef, live>>
    ELSE LET cs == IF reportsChartsInitialized
                   THEN destroyReportsCharts(Charts) ELSE Charts
         IN /\ reportsLoadToken' = clock
            /\ chartRef' = cs.ref
            /\ live' = cs.live
            /\ loading' = TRUE
            /\ minted' = before + 1
            /\ loads' = Append(loads, [token |-> clock, res |-> "pending"])
            /\ reportsChartsInitialized' = TRUE

\* Date.now() moves on between two events.
Tick ==
    /\ clock < MaxClock
    /\ clock' = clock + 1
    /\ ev' = Ev("tick", 0, <<>>)
    /\ UNCHANGED chatVars
    /\ UNCHANGED surfaceVars
    /\ UNCHANGED <<reportsScript, nav, onReports, reportsLoadToken,
                   reportsChartsInitialized, loads, staticRenders, chartRef,
                   live, loading, emptyState, summary, totalRevenueText,
                   topCategories, reportData, made, minted>>

\* The document is replaced (a Turbo render, or new main-frame content):
\* every element is back in its template state.
freshDocument(p) ==
    /\ onReports' = p
    /\ emptyState' = AllShown
    /\ summary' = 0
    /\ totalRevenueText' = "template"
    /\ topCategories' = "template"

\* The page fits one more load (live script) or chart render (static one).
RoomForLoad(p) ==
    p => IF reportsScript = "live" THEN Len(loads) < MaxLoads
         ELSE staticRenders < MaxLoads

\* The static script's turbo:load handler: page check, re-initialisation
\* guard with its own copy of the teardown, then three charts of fixed data.
staticLoadHandler ==
    IF ~onReports
    THEN UNCHANGED <<reportsChartsInitialized, staticRenders, chartRef, live,
                     made>>
    ELSE LET cs == IF reportsChartsInitialized
                   THEN destroyReportsCharts(Charts) ELSE Charts
             created == createCharts(cs, staticRenders + 1)
         IN /\ chartRef' = created.ref
            /\ live' = created.live
            /\ made' = madeAfter(staticRenders + 1)
            /\ staticRenders' = staticRenders + 1
            /\ reportsChartsInitialized' = TRUE

\* The reports script is evaluated: it registers its listeners and, the
\* live script, calls initReports once (directly, or on DOMContentLoaded).
ScriptEval ==
    /\ nav = "script"
    /\ RoomForLoad(onReports)
    /\ nav' = "rendered"
    /\ IF reportsScript = "live"
       THEN initReports(onReports, loading, minted)
       ELSE UNCHANGED <<reportsLoadToken, reportsChartsInitialized, loads,
                        chartRef, live, loading, minted>>
    /\ ev' = Ev("script", 0, <<>>)
    /\ UNCHANGED chatVars
    /\ UNCHANGED surfaceVars
    /\ UNCHANGED <<clock, reportsScript, onReports, staticRenders, emptyState,
                   summary, totalRevenueText, topCategories, reportData, made>>

\* turbo:load
TurboLoad ==
    /\ nav = "rendered"
    /\ RoomForLoad(onReports)
    /\ nav' = "idle"
    /\ IF reportsScript = "live"
       THEN initReports(onReports, loading, minted)
            /\ UNCHANGED <<staticRenders, made>>
       ELSE staticLoadHandler
            /\ UNCHANGED <<reportsLoadToken, loads, loading, minted>>
    /\ ev' = Ev("load", 0, <<>>)
    /\ UNCHANGED chatVars
    /\ UNCHANGED surfaceVars
    /\ UNCHANGED <<clock, reportsScript, onReports, emptyState, summary,
                   totalRevenueText, topCategories, reportData>>

\* turbo:frame-load on the main frame: its content was just replaced by
\* page p, which is a new activation. Only the live script listens.
TurboFrameLoad(p) ==
    /\ nav = "idle"
    /\ reportsScript = "live"
    /\ RoomForLoad(p)
    /\ freshDocument(p)
    /\ initReports(p, FALSE, 0)
    /\ ev' = Ev("frameload", 0, <<>>)
    /\ UNCHANGED chatVars
    /\ UNCHANGED surfaceVars
    /\ UNCHANGED <<clock, reportsScript, nav, staticRenders, reportData, made>>

\* The teardown of the turbo:before-cache handler (its own copy of the
\* three guarded destroy calls).
beforeCacheDestroy(cs) ==
    [ref  |-> NoCharts,
     live |-> [t \in Targets |-> cs.live[t] \ {cs.ref[t]}]]

\* turbo:before-cache: the visit leaves the current page.
TurboBeforeCache ==
    /\ nav = "idle"
    /\ nav' = "leaving"
    /\ LET cs == beforeCacheDestroy(Charts)
       IN chartRef' = cs.ref /\ live' = cs.live
    /\ reportsChartsInitialized' = FALSE
    /\ ev' = Ev("beforecache", 0, <<>>)
    /\ UNCHANGED chatVars
    /\ UNCHANGED surfaceVars
    /\ UNCHANGED <<clock, reportsScript, onReports, reportsLoadToken, loads,
                   staticRenders, loading, emptyState, summary,
                   totalRevenueText, topCategories, reportData, made, minted>>

\* Turbo renders the visited page p: a new activation begins.
TurboRender(p) ==
    /\ nav = "leaving"
    /\ nav' = "rendered"
    /\ freshDocument(p)
    /\ loading' = FALSE
    /\ minted' = 0
    /\ ev' = Ev("render", 0, <<>>)
    /\ UNCHANGED chatVars
    /\ UNCHANGED surfaceVars
    /\ UNCHANGED <<clock, reportsScript, reportsLoadToken,
                   reportsChartsInitialized, loads, staticRenders, chartRef,
                   live, reportData, made>>

\* showNoDataState(): placeholder text, no categories, every canvas hidden
\* behind the placeholder. Elements that are not in the document are skipped.
showNoDataState ==
    IF onReports
    THEN /\ totalRevenueText' = "nodata"
         /\ topCategories' = "nodata"
         /\ emptyState' = AllEmpty
    ELSE UNCHANGED <<totalRevenueText, topCategories, emptyState>>

\* The body of the fetch's .then(data => ...) past the token check and the
\* empty check, for load i: placeholders cleared, summary, report data,
\* categories and total written, charts torn down and created anew.
applyData(i) ==
    /\ reportData' = i
    /\ IF onReports
       THEN /\ emptyState' = AllShown
            /\ summary' = i
            /\ topCategories' = i
            /\ totalRevenueText' = i
       ELSE UNCHANGED <<emptyState, summary, topCategories, totalRevenueText>>
    /\ LET created == createCharts(destroyReportsCharts(Charts), i)
       IN chartRef' = created.ref /\ live' = created.live
    /\ made' = madeAfter(i)

\* Mutant of finallyLoading: a settled load leaves the indicator as it is.
finallyLoading_Never == loading

\* setReportsLoading(false) of .finally: hides the indicator if there is one.
finallyLoading == IF onReports THEN FALSE ELSE loading

\* The order-list fetch of load i settles with outcome res: .then (token
\* check, empty check, apply), .catch (no-data state), .finally.
Resolve(i, res) ==
    /\ i \in 1..Len(loads)
    /\ loads[i].res = "pending"
    /\ loads' = [loads EXCEPT ![i].res = res]
    /\ IF res = "fail"
       THEN /\ showNoDataState
            /\ UNCHANGED <<summary, reportData, chartRef, live, made>>
       ELSE IF IsStale(loads[i].token)
       THEN UNCHANGED <<summary, reportData, chartRef, live, made,
                        totalRevenueText, topCategories, emptyState>>
       ELSE IF res = "empty"
       THEN /\ showNoDataState
            /\ UNCHANGED <<summary, reportData, chartRef, live, made>>
       ELSE applyData(i)
    /\ loading' = finallyLoading
    /\ ev' = Ev("resolve", i, <<>>)
    /\ UNCHANGED chatVars
    /\ UNCHANGED surfaceVars
    /\ UNCHANGED <<clock, reportsScript, nav, onReports, reportsLoadToken,
                   reportsChartsInitialized, staticRenders, minted>>

\* ============================================================ chat surface

\* Largest number of user utterances (messages sent and quick-action
\* clicks) in one behaviour.
MaxUtterances == 2

\* undefined, where a number is expected (a reply without order_total).
Undefined == -1

\* Text typed into a field: a sequence of characters.
Strings == {<<>>, <<" ">>, <<" ", "A">>}

RECURSIVE TrimStart(_)
TrimStart(s) ==
    IF s # <<>> /\ Head(s) = " " THEN TrimStart(Tail(s)) ELSE s

RECURSIVE TrimEnd(_)
TrimEnd(s) ==
    IF s # <<>> /\ s[Len(s)] = " " THEN TrimEnd(SubSeq(s, 1, Len(s) - 1)) ELSE s

\* String.prototype.trim()
Trim(s) == TrimEnd(TrimStart(s))

\* Order items as the chat endpoint sends them; prices in cents.
Burger == [name |-> "Burger", price |-> 1299, quantity |-> 2]
Fries == [name |-> "Fries", price |-> 350, quantity |-> 1]
ItemLists == {<<Burger>>, <<Fries, Burger>>}

\* The JSON bodies /api/chat answers a 2xx status with: response text (or
\* none), the order_ready flag, order_items (or none) and order_total (or
\* none).
ChatReplies ==
    {[rejected |-> FALSE, ok |-> TRUE, response |-> r, order_ready |-> FALSE,
      order_items |-> <<>>, order_total |-> Undefined] :
        r \in {<<>>, <<"reply">>}}
    \cup
    {[rejected |-> FALSE, ok |-> TRUE, response |-> <<"confirm?">>,
      order_ready |-> TRUE, order_items |-> its, order_total |-> t] :
        its \in ItemLists, t \in {2598, Undefined}}
    \cup
    {[rejected |-> FALSE, ok |-> TRUE, response |-> <<"confirm?">>,
      order_ready |-> TRUE, order_items |-> <<>>, order_total |-> 2598]}

\* The JSON bodies of a non-2xx status: an error body without a response
\* text, one with a response text, and one shaped like an order-ready reply.
\* sendToAI reads them as it reads any body: it never looks at res.ok.
FailedReplies ==
    {[rejected |-> FALSE, ok |-> FALSE, response |-> r, order_ready |-> FALSE,
      order_items |-> <<>>, order_total |-> Undefined] :
        r \in {<<>>, <<"Internal Server Error">>}}
    \cup
    {[rejected |-> FALSE, ok |-> FALSE, response |-> <<"confirm?">>,
      order_ready |-> TRUE, order_items |-> <<Burger>>, order_total |-> 2598]}

\* A rejection of the fetch or of response.json() (network error,
\* unparsable body): no body is read.
Rejection ==
    [rejected |-> TRUE, ok |-> FALSE, response |-> <<>>, order_ready |-> FALSE,
     order_items |-> <<>>, order_total |-> Undefined]

\* What a chat request can end in.
ChatOutcomes == ChatReplies \cup FailedReplies \cup {Rejection}

\* What an order placement can end in: 2xx with {message}, non-2xx with
\* {error}, non-2xx without an error field, or a rejection.
PlaceOutcomes == {"ok", "error", "noerror", "reject"}

\* The quick-action keys: the four with a canned generator, and one without.
CannedKeys == {"menu", "order", "hours", "support"}
QuickKeys == CannedKeys \cup {"specials"}
\* The quick buttons the model clicks.
QuickClicked == {"order", "menu", "specials"}

ResetOrderState ==
    [items |-> <<>>, customerName |-> <<>>, tableNumber |-> <<>>,
     isCollectingOrder |-> FALSE]

\* postMessage(text, from) on the message log ms. A bot text that is not a
\* string makes buildBotBubbleContent throw before the row is appended.
postMessage(ms, text, from) == Append(ms, [from |-> from, text |-> text])

\* The total the order form would show: orderData.total.toFixed(2) throws
\* on undefined.
FormThrows(orderData) == orderData.total = Undefined

\* Mutant of calculateOrderTotal: the total the last form displayed is sent.
calculateOrderTotal_Displayed(items) ==
    IF forms = <<>> THEN 0 ELSE forms[Len(forms)].total

\* reduce((sum, item) => sum + (parseFloat(item.price) || 0) *
\* (item.quantity || 1), 0)
RECURSIVE calculateOrderTotal(_)
calculateOrderTotal(items) ==
    IF items = <<>> THEN 0
    ELSE LET item == Head(items)
             price == item.price
             qty == IF item.quantity = 0 THEN 1 ELSE item.quantity
         IN price * qty + calculateOrderTotal(Tail(items))

\* The request body submitOrder sends.
placeBody(os) ==
    [customer_name |-> os.customerName,
     table_number  |-> os.tableNumber,
     items         |-> os.items,
     total_amount  |-> calculateOrderTotal(os.items),
     st            |-> "pending"]

\* submitOrder() up to its first await, on the chat state c: the two
\* refusals, else the placement request is issued.
submitOrder(c) ==
    IF c.orderState.items = <<>>
    THEN [c EXCEPT !.messages =
             postMessage(@, <<"Your order is empty. Please add items first.">>, "bot")]
    ELSE IF c.orderState.customerName = <<>> \/ c.orderState.tableNumber = <<>>
    THEN [c EXCEPT !.messages =
             postMessage(@, <<"Please provide your name and table number to confirm the order.">>, "bot")]
    ELSE [c EXCEPT !.places = Append(@, placeBody(c.orderState))]

\* Mutant of FieldsBlank: the handler does not check its fields.
FieldsBlank_NoCheck(name, tableNumber) == FALSE

\* if (!name || !tableNumber): alert and return.
FieldsBlank(name, tableNumber) == name = <<>> \/ tableNumber = <<>>

\* Mutant of confirmListener: the confirm button is left enabled.
confirmListener_NoDisable(c, nameField, tableField) ==
    LET name == Trim(nameField)
        tableNumber == Trim(tableField)
    IN IF name = <<>> \/ tableNumber = <<>>
       THEN c
       ELSE submitOrder(
              [c EXCEPT !.orderState.customerName = name,
                        !.orderState.tableNumber = tableNumber,
                        !.orderState.isCollectingOrder = FALSE])

\* One click listener of #confirm-order-btn, the fields of the first form
\* in the document holding nameField and tableField: blank check, session
\* fields, button of the first form disabled, submitOrder.
confirmListener(c, nameField, tableField) ==
    LET name == Trim(nameField)
        tableNumber == Trim(tableField)
    IN IF FieldsBlank(name, tableNumber)
       THEN c
       ELSE submitOrder(
              [c EXCEPT !.orderState.customerName = name,
                        !.orderState.tableNumber = tableNumber,
                        !.orderState.isCollectingOrder = FALSE,
                        !.forms[1].disabled = TRUE])

\* The click event runs every listener registered on the button, in order.
RECURSIVE dispatchClick(_, _, _, _)
dispatchClick(c, n, nameField, tableField) ==
    IF n = 0 THEN c
    ELSE dispatchClick(confirmListener(c, nameField, tableField), n - 1,
                       nameField, tableField)

\* document.getElementById('confirm-order-btn') is the button of the first
\* form in the document, so every postOrderForm call adds its listener to
\* that button: it carries one listener per form rendered.
ListenersOnFirstButton == Len(forms)

ChatState ==
    [orderState |-> orderState, forms |-> forms, places |-> places,
     messages |-> messages]


Sorry == <<"Sorry, I could not process that.">>
ChatError == <<"Sorry, I encountered an error. Please try again.">>

\* The label of the quick button of a key, as posted for the user.
Label(key) == <<"label", key>>

\* The canned replies.
canned(key) == <<"canned", key>>

\* The utterances so far: each posts one user row.
Utterances ==
    Cardinality({k \in 1..Len(messages) : messages[k].from = "user"})

\* Mutant of sendToAI: the history is started anew with each message.
sendToAI_FreshHistory(message, origin) ==
    /\ conversationHistory' = <<[role |-> "user", content |-> message]>>
    /\ chats' = Append(chats, [origin |-> origin, st |-> "pending",
                               message |-> message,
                               history |-> conversationHistory])

\* Mutant of sendToAI: the whole history is sent, the current message
\* included.
sendToAI_SendsAll(message, origin) ==
    /\ conversationHistory' =
           Append(conversationHistory, [role |-> "user", content |-> message])
    /\ chats' = Append(chats, [origin |-> origin, st |-> "pending",
                               message |-> message,
                               history |-> conversationHistory'])

\* sendToAI(message) up to its await: the message joins the history and the
\* chat request is issued, carrying the message and
\* conversationHistory.slice(0, -1).
sendToAI(message, origin) ==
    /\ conversationHistory' =
           Append(conversationHistory, [role |-> "user", content |-> message])
    /\ chats' = Append(chats, [origin |-> origin, st |-> "pending",
                               message |-> message,
                               history |-> SubSeq(conversationHistory', 1,
                                              Len(conversationHistory') - 1)])

\* What #txt holds when #send is clicked: a disabled input takes no typing,
\* an enabled one holds what the user typed, v.
Typed(v) == IF txtDisabled THEN txtValue ELSE v

\* Mutant of Send: the input is neither emptied nor disabled.
Send_KeepsInput(v) ==
    /\ Trim(Typed(v)) # <<>> => Utterances < MaxUtterances
    /\ IF Trim(Typed(v)) = <<>>
       THEN /\ txtValue' = Typed(v)
            /\ ev' = Ev("send", 0, <<>>)
            /\ UNCHANGED <<conversationHistory, chats, messages, txtDisabled,
                           typing>>
       ELSE /\ messages' = postMessage(messages, Trim(Typed(v)), "user")
            /\ txtValue' = Typed(v)
            /\ UNCHANGED txtDisabled
            /\ typing' = TRUE
            /\ sendToAI(Trim(Typed(v)), "send")
            /\ ev' = Ev("send", Len(chats) + 1, <<>>)
    /\ UNCHANGED <<orderState, forms, places, timers, faults, scriptVars>>
    /\ UNCHANGED reportVars
    /\ UNCHANGED surfaceVars

\* The click handler of #send up to its await, the user having typed v if
\* the input takes typing: a blank value returns at once; otherwise the
\* message is posted, the input emptied and disabled, and the request made.
Send(v) ==
    /\ Trim(Typed(v)) # <<>> => Utterances < MaxUtterances
    /\ IF Trim(Typed(v)) = <<>>
       THEN /\ txtValue' = Typed(v)
            /\ ev' = Ev("send", 0, <<>>)
            /\ UNCHANGED <<conversationHistory, chats, messages, txtDisabled,
                           typing>>
       ELSE /\ messages' = postMessage(messages, Trim(Typed(v)), "user")
            /\ txtValue' = <<>>
            /\ txtDisabled' = TRUE
            /\ typing' = TRUE
            /\ sendToAI(Trim(Typed(v)), "send")
            /\ ev' = Ev("send", Len(chats) + 1, <<>>)
    /\ UNCHANGED <<orderState, forms, places, timers, faults, scriptVars>>
    /\ UNCHANGED reportVars
    /\ UNCHANGED surfaceVars

\* The keydown handler of #txt for the Enter key: it clicks #send. A
\* disabled input receives no key events.
Enter(v) ==
    /\ ~txtDisabled
    /\ Send(v)

\* The click handler of a .quick-btn with data-action key.
Quick(key) ==
    /\ Utterances < MaxUtterances
    /\ IF key \in CannedKeys
       THEN /\ orderState' = IF key = "order"
                             THEN [orderState EXCEPT !.isCollectingOrder = TRUE]
                             ELSE orderState
            /\ timers' = Append(timers, canned(key))
            /\ UNCHANGED <<conversationHistory, chats>>
       ELSE /\ sendToAI(Label(key), "quick")
            /\ UNCHANGED <<orderState, timers>>
    /\ messages' = postMessage(messages, Label(key), "user")
    /\ typing' = TRUE
    /\ ev' = Ev("quick", 0, <<key>>)
    /\ UNCHANGED <<forms, places, txtDisabled, faults>>
    /\ UNCHANGED <<txtValue, scriptVars>>
    /\ UNCHANGED reportVars
    /\ UNCHANGED surfaceVars

\* A setTimeout(.., 500) of a canned reply fires (equal delays: in order).
TimerFire ==
    /\ timers # <<>>
    /\ typing' = FALSE
    /\ messages' = postMessage(messages, Head(timers), "bot")
    /\ timers' = Tail(timers)
    /\ ev' = Ev("timer", 0, <<>>)
    /\ UNCHANGED <<conversationHistory, orderState, forms, chats, places,
                   txtDisabled, faults>>
    /\ UNCHANGED <<txtValue, scriptVars>>
    /\ UNCHANGED reportVars
    /\ UNCHANGED surfaceVars

\* data.order_ready && data.order_items && data.order_items.length > 0
OrderReady(data) == data.order_ready /\ data.order_items # <<>>

\* data.response || 'Sorry, I could not process that.'
BotResponse(data) == IF data.response = <<>> THEN Sorry ELSE data.response

\* Chat request i settles with out: the rest of sendToAI (history, order
\* check), then the rest of the handler that awaited it.
ChatResolve(i, out) ==
    /\ i \in 1..Len(chats)
    /\ chats[i].st = "pending"
    /\ chats' = [chats EXCEPT ![i].st = "done"]
    /\ conversationHistory' =
           IF out.rejected THEN conversationHistory
           ELSE Append(conversationHistory,
                       [role |-> "assistant", content |-> BotResponse(out)])
    /\ typing' = FALSE
    /\ LET structured == ~out.rejected /\ OrderReady(out)
           plain == IF out.rejected THEN ChatError ELSE BotResponse(out)
           orderData == [items |-> out.order_items, total |-> out.order_total]
           \* the send handler tests result.orderReady; the quick-action
           \* handler hands whatever it got to postMessage
           asForm == chats[i].origin = "send"
       IN IF structured /\ asForm
          THEN \* postOrderForm(result)
               IF FormThrows(orderData)
               THEN /\ faults' = faults \cup {"postOrderForm: total is undefined"}
                    /\ UNCHANGED <<messages, forms, orderState, txtDisabled>>
               ELSE /\ forms' = Append(forms, [items |-> orderData.items,
                                               total |-> orderData.total,
                                               disabled |-> FALSE])
                    /\ orderState' = [orderState EXCEPT !.items = orderData.items]
                    /\ txtDisabled' = IF chats[i].origin = "send" THEN FALSE
                                      ELSE txtDisabled
                    /\ UNCHANGED <<messages, faults>>
          ELSE IF structured
          THEN \* postMessage(result, 'bot') with an object
               /\ faults' = faults \cup {"postMessage: text is not a string"}
               /\ UNCHANGED <<messages, forms, orderState, txtDisabled>>
          ELSE /\ messages' = postMessage(messages, plain, "bot")
               /\ txtDisabled' = IF chats[i].origin = "send" THEN FALSE
                                 ELSE txtDisabled
               /\ UNCHANGED <<forms, orderState, faults>>
    /\ ev' = Ev("chat", i, <<out.rejected, out.order_ready,
                            out.order_items # <<>>, out.order_total # Undefined,
                            out.ok>>)
    /\ UNCHANGED <<places, timers>>
    /\ UNCHANGED <<txtValue, scriptVars>>
    /\ UNCHANGED reportVars
    /\ UNCHANGED surfaceVars

\* A click on the confirm button of form k, the fields of the first form
\* holding nameField and tableField. A disabled button receives no click;
\* only the first button carries listeners.
ConfirmClick(k, nameField, tableField) ==
    /\ k \in 1..Len(forms)
    /\ ~forms[k].disabled
    /\ LET c == IF k = 1
                THEN dispatchClick(ChatState, ListenersOnFirstButton,
                                   nameField, tableField)
                ELSE ChatState
       IN /\ orderState' = c.orderState
          /\ forms' = c.forms
          /\ places' = c.places
          /\ messages' = c.messages
    /\ ev' = Ev("confirm", k,
                 <<Trim(nameField) = <<>> \/ Trim(tableField) = <<>> >>)
    /\ UNCHANGED <<conversationHistory, chats, txtDisabled, typing, timers,
                   faults>>
    /\ UNCHANGED <<txtValue, scriptVars>>
    /\ UNCHANGED reportVars
    /\ UNCHANGED surfaceVars

\* Mutant of placeSucceeded: the conversation history is kept.
placeSucceeded_KeepsHistory(message) ==
    /\ messages' = postMessage(messages, <<"(check mark)">> \o message, "bot")
    /\ orderState' = ResetOrderState
    /\ UNCHANGED conversationHistory

\* The rest of submitOrder after a success response.
placeSucceeded(message) ==
    /\ messages' = postMessage(messages, <<"(check mark)">> \o message, "bot")
    /\ orderState' = ResetOrderState
    /\ conversationHistory' = <<>>

\* Placement request j settles with out: the rest of submitOrder.
PlaceResolve(j, out) ==
    /\ j \in 1..Len(places)
    /\ places[j].st = "pending"
    /\ places' = [places EXCEPT ![j].st = out]
    /\ CASE out = "ok" -> placeSucceeded(<<"Order #551 placed">>)
         [] out = "error" ->
              /\ messages' = postMessage(messages, <<"Order failed:", "Kitchen closed">>, "bot")
              /\ UNCHANGED <<orderState, conversationHistory>>
         [] out = "noerror" ->
              /\ messages' = postMessage(messages, <<"Order failed:", "undefined">>, "bot")
              /\ UNCHANGED <<orderState, conversationHistory>>
         [] out = "reject" ->
              /\ messages' = postMessage(messages, <<"Failed to place order. Please try again.">>, "bot")
              /\ UNCHANGED <<orderState, conversationHistory>>
    /\ ev' = Ev("place", j, <<out>>)
    /\ UNCHANGED <<forms, chats, txtDisabled, typing, timers, faults>>
    /\ UNCHANGED <<txtValue, scriptVars>>
    /\ UNCHANGED reportVars
    /\ UNCHANGED surfaceVars

\* ==================================================== message rendering

\* Longest text, in characters, among the texts of every shape.
MaxTextLen == 4

\* The characters of the texts of every shape. A multi-character entry
\* stands for that literal run of characters (the prefix of an external URL,
\* the prefix of a menu photo URL, a literal <br>) or names its character
\* (the backtick, the bullet).
Alphabet == {"a", "*", "backtick", " ", "\n", "<br>", ".", "http://", "/menu/photo/"}

\* Longer texts: bold and code on one line and an image URL on the next; a
\* bold marker inside a code span; an uploaded photo with bullet and label;
\* a menu photo after a colon; an uploads path without an extension; a URL
\* followed by a full stop.
Examples ==
    {<<"*", "*", "a", "*", "*", " ", "backtick", "a", "backtick", "\n",
       "http://", "a", ".png">>,
     <<"backtick", "*", "*", "a", "*", "*", "backtick">>,
     <<"a", " ", "bullet", " ", "photo:", " ", "/static/uploads/", "a",
       ".png">>,
     <<"a", ":", " ", "/menu/photo/", "a", "-", "a">>,
     <<"/static/uploads/", "a", " ", "a">>,
     <<"a", " ", "http://", "a", ".", " ", "http://", "a", "a">>}

\* The texts a message is rendered from.
Texts == UNION {[1..n -> Alphabet] : n \in 0..MaxTextLen} \cup Examples

\* escapeHtml(value): of the characters here only < and > are
\* markup-significant.
escapeHtml(value) ==
    [k \in 1..Len(value) |->
        IF value[k] = "<br>" THEN "&lt;br&gt;" ELSE value[k]]

\* The first index from i on at which s holds character d (0: none).
NextIndex(s, i, d) ==
    LET js == {j \in i..Len(s) : s[j] = d}
    IN IF js = {} THEN 0 ELSE CHOOSE j \in js : \A k \in js : j <= k

\* s.replace(/D([^d]+)D/g, open + '$1' + close), D being n times the
\* character d: scanning from the left, a delimiter followed by one or more
\* characters other than d and by a delimiter becomes open, content, close;
\* where that does not match, the character is kept and the scan moves on
\* by one.
RECURSIVE replaceDelimited(_, _, _, _, _)
replaceDelimited(s, d, n, open, close) ==
    IF s = <<>> THEN <<>>
    ELSE LET opens == /\ n < Len(s)
                      /\ \A k \in 1..n : s[k] = d
                      /\ s[n + 1] # d
             j == NextIndex(s, n + 2, d)
             closes == /\ j # 0
                       /\ j + n - 1 <= Len(s)
                       /\ \A k \in 0..(n - 1) : s[j + k] = d
         IN IF opens /\ closes
            THEN <<open>> \o SubSeq(s, n + 1, j - 1) \o <<close>>
                 \o replaceDelimited(SubSeq(s, j + n, Len(s)), d, n, open, close)
            ELSE <<Head(s)>> \o replaceDelimited(Tail(s), d, n, open, close)

\* const withCode = safe.replace(/B([^B]+)B/g, '<code>$1</code>'), B the
\* backtick.
withCode(safe) == replaceDelimited(safe, "backtick", 1, "<code>", "</code>")

\* .replace(/\n/g, '<br>')
lineBreaks(s) == [k \in 1..Len(s) |-> IF s[k] = "\n" THEN "<br>" ELSE s[k]]

\* formatMessage(text): escape, code, bold, italics, line breaks.
formatMessage(t) ==
    LET safe == escapeHtml(t)
        withBold == replaceDelimited(withCode(safe), "*", 2,
                                     "<strong>", "</strong>")
        withItalic == replaceDelimited(withBold, "*", 1, "<em>", "</em>")
    IN lineBreaks(withItalic)

\* \s
SpaceChars == {" ", "\n"}

IsSpace(ch) == ch \in SpaceChars

\* [a-f0-9\-]
HexChars == {"a", "-"}

\* The length of the longest run of characters of the set cs (within: TRUE)
\* or of characters outside it (within: FALSE) that starts at index i of s.
RECURSIVE runLength(_, _, _, _)
runLength(s, i, cs, within) ==
    IF i <= Len(s) /\ ((s[i] \in cs) = within)
    THEN 1 + runLength(s, i + 1, cs, within) ELSE 0

\* The length of the match of the photo URL pattern that starts at index i
\* of line (0: none): /menu/photo/ and hex characters, or an http(s) URL up
\* to the next white space, or /static/uploads/ and the fewest characters
\* that reach an image extension.
urlLength(line, i) ==
    IF i > Len(line) THEN 0
    ELSE IF line[i] = "/menu/photo/"
    THEN LET n == runLength(line, i + 1, HexChars, TRUE)
         IN IF n = 0 THEN 0 ELSE 1 + n
    ELSE IF line[i] = "http://"
    THEN LET n == runLength(line, i + 1, SpaceChars, FALSE)
         IN IF n = 0 THEN 0 ELSE 1 + n
    ELSE IF line[i] = "/static/uploads/"
    THEN LET n == runLength(line, i + 1, SpaceChars, FALSE)
             ks == {k \in (i + 2)..(i + n) : line[k] = ".png"}
         IN IF ks = {} THEN 0
            ELSE (CHOOSE k \in ks : \A m \in ks : k <= m) - i + 1
    ELSE 0

\* match[0].replace(/[),.!?]+$/, '')
RECURSIVE stripPunctuation(_)
stripPunctuation(s) ==
    IF s # <<>> /\ s[Len(s)] = "."
    THEN stripPunctuation(SubSeq(s, 1, Len(s) - 1)) ELSE s

\* Mutant of extractPhotoUrl: the last match of the line is taken.
extractPhotoUrl_LastMatch(line) ==
    LET is == {i \in 1..Len(line) : urlLength(line, i) > 0}
    IN IF is = {} THEN <<>>
       ELSE LET i == CHOOSE i \in is : \A k \in is : k <= i
            IN stripPunctuation(SubSeq(line, i, i + urlLength(line, i) - 1))

\* extractPhotoUrl(line): the leftmost match, without trailing punctuation;
\* '' without a match.
extractPhotoUrl(line) ==
    LET is == {i \in 1..Len(line) : urlLength(line, i) > 0}
    IN IF is = {} THEN <<>>
       ELSE LET i == CHOOSE i \in is : \A k \in is : i <= k
            IN stripPunctuation(SubSeq(line, i, i + urlLength(line, i) - 1))

\* line.replace(photoUrl, ''): the first occurrence is removed.
removeFirst(line, url) ==
    LET is == {i \in 1..(Len(line) - Len(url) + 1) :
                  SubSeq(line, i, i + Len(url) - 1) = url}
    IN IF is = {} \/ url = <<>> THEN line
       ELSE LET i == CHOOSE i \in is : \A k \in is : i <= k
            IN SubSeq(line, 1, i - 1) \o SubSeq(line, i + Len(url), Len(line))

\* The number of white-space characters that end SubSeq(s, 1, i).
RECURSIVE spacesBefore(_, _)
spacesBefore(s, i) ==
    IF i >= 1 /\ IsSpace(s[i]) THEN 1 + spacesBefore(s, i - 1) ELSE 0

\* .replace(/\s*(bullet)?\s*photo:\s*/i, ''): the first label, with the
\* white space around it and the bullet before it.
removeLabel(s) ==
    LET p == NextIndex(s, 1, "photo:")
    IN IF p = 0 THEN s
       ELSE LET a == p - spacesBefore(s, p - 1)
                b == IF a > 1 /\ s[a - 1] = "bullet"
                     THEN a - 1 - spacesBefore(s, a - 2) ELSE a
                e == p + runLength(s, p + 1, SpaceChars, TRUE)
            IN SubSeq(s, 1, b - 1) \o SubSeq(s, e + 1, Len(s))

\* .replace(/\s*[:\-(en dash)]\s*$/i, ''): a colon or dash that ends the
\* text, with the white space around it.
removeTrailingColon(s) ==
    LET e == Len(s) - spacesBefore(s, Len(s))
    IN IF e >= 1 /\ s[e] \in {":", "-"}
       THEN SubSeq(s, 1, e - 1 - spacesBefore(s, e - 1))
       ELSE s

\* normalized.split('\n')
RECURSIVE split(_)
split(s) ==
    LET j == NextIndex(s, 1, "\n")
    IN IF j = 0 THEN <<s>>
       ELSE <<SubSeq(s, 1, j - 1)>> \o split(SubSeq(s, j + 1, Len(s)))

\* The node one line contributes to the wrapper: a menu photo card (caption,
\* when there is caption text, and image) or a chat line; no node for a
\* blank line.
lineNode(rawLine) ==
    LET line == Trim(rawLine)
        photoUrl == extractPhotoUrl(line)
        captionText == Trim(removeTrailingColon(removeLabel(
                           removeFirst(line, photoUrl))))
    IN IF line = <<>> THEN <<>>
       ELSE IF photoUrl # <<>>
       THEN <<[kind |-> "card", caption |-> captionText # <<>>,
               html |-> formatMessage(captionText), src |-> photoUrl]>>
       ELSE <<[kind |-> "line", caption |-> FALSE,
               html |-> formatMessage(line), src |-> <<>>]>>

RECURSIVE lineNodes(_)
lineNodes(lines) ==
    IF lines = <<>> THEN <<>>
    ELSE lineNode(Head(lines)) \o lineNodes(Tail(lines))

\* buildBotBubbleContent(text): <br> becomes a line break, one node per
\* non-blank line, and the whole text formatted when there is no node.
buildBotBubbleContent(t) ==
    LET normalized == [k \in 1..Len(t) |->
                          IF t[k] = "<br>" THEN "\n" ELSE t[k]]
        nodes == lineNodes(split(normalized))
    IN IF nodes = <<>>
       THEN <<[kind |-> "html", caption |-> FALSE,
               html |-> formatMessage(t), src |-> <<>>]>>
       ELSE nodes

NoBubble == [from |-> "none", html |-> <<>>, nodes |-> <<>>]

\* postMessage(text, 'user'): bubble.innerHTML = formatMessage(text)
RenderUserBubble ==
    /\ bubble = NoBubble
    /\ bubble' = [from |-> "user", html |-> formatMessage(msgText),
                  nodes |-> <<>>]
    /\ ev' = Ev("bubble", 0, <<"user">>)
    /\ UNCHANGED <<msgText, elements, configLoad, chatbotConfig, ui>>
    /\ UNCHANGED frameVars
    /\ UNCHANGED <<reportVars, chatVars>>

\* postMessage(text, 'bot'): bubble.appendChild(buildBotBubbleContent(text))
RenderBotBubble ==
    /\ bubble = NoBubble
    /\ bubble' = [from |-> "bot", html |-> <<>>,
                  nodes |-> buildBotBubbleContent(msgText)]
    /\ ev' = Ev("bubble", 0, <<"bot">>)
    /\ UNCHANGED <<msgText, elements, configLoad, chatbotConfig, ui>>
    /\ UNCHANGED frameVars
    /\ UNCHANGED <<reportVars, chatVars>>

\* ========================================================= configuration

\* The optional fields of the configuration object that the chat surface
\* shows: '' stands for a field that is absent (or empty).
Fields == {"color_hex", "menu_text", "establishment_name", "font_family",
           "chatbot_avatar", "user_avatar"}

\* {}
NoFields == [f \in Fields |-> ""]

\* The values /api/config can carry: an object with any of the fields, or
\* null.
Configs ==
    {[null |-> FALSE, f |-> c] : c \in [Fields -> {"", "v"}]}
    \cup {[null |-> TRUE, f |-> NoFields]}

\* What the configuration request can end in: a 2xx status with a body, a
\* non-2xx status, a 2xx status with an unparsable body, a network error.
ConfigOutcomes ==
    {[kind |-> "ok", body |-> c] : c \in Configs}
    \cup {[kind |-> k, body |-> [null |-> FALSE, f |-> NoFields]] :
            k \in {"status", "badjson", "reject"}}

\* The elements applyConfig looks up by id.
ConfigElements == {"preview-menu", "resto-name-text"}

DefaultUi ==
    [accent |-> <<"default">>, previewMenu |-> <<"default">>,
     restoName |-> <<"default">>, fontFamily |-> <<"default">>]

\* Mutant of applyConfig: every aspect is written, its field present or not.
applyConfig_NoGuards(cfg, u) ==
    IF cfg.null THEN u
    ELSE [accent      |-> <<cfg.f["color_hex"]>>,
          previewMenu |-> IF "preview-menu" \in elements
                          THEN <<cfg.f["menu_text"]>> ELSE u.previewMenu,
          restoName   |-> IF "resto-name-text" \in elements
                          THEN <<cfg.f["establishment_name"], " - A.I Chatbot">>
                          ELSE u.restoName,
          fontFamily  |-> <<cfg.f["font_family"], ", Arial, sans-serif">>]

\* applyConfig(cfg) on the aspects u: each aspect is written only when its
\* field is set (and its element, where it has one, is in the document).
applyConfig(cfg, u) ==
    IF cfg.null THEN u
    ELSE [accent      |-> IF cfg.f["color_hex"] # ""
                          THEN <<cfg.f["color_hex"]>> ELSE u.accent,
          previewMenu |-> IF cfg.f["menu_text"] # ""
                             /\ "preview-menu" \in elements
                          THEN <<cfg.f["menu_text"]>> ELSE u.previewMenu,
          restoName   |-> IF cfg.f["establishment_name"] # ""
                             /\ "resto-name-text" \in elements
                          THEN <<cfg.f["establishment_name"], " - A.I Chatbot">>
                          ELSE u.restoName,
          fontFamily  |-> IF cfg.f["font_family"] # ""
                          THEN <<cfg.f["font_family"], ", Arial, sans-serif">>
                          ELSE u.fontFamily]

\* The avatar postMessage gives a row, from the cached configuration.
avatarSrc(cfg, from) ==
    IF from = "bot"
    THEN IF ~cfg.null /\ cfg.f["chatbot_avatar"] # ""
         THEN <<cfg.f["chatbot_avatar"]>> ELSE <<"/static/img/bot-avatar.svg">>
    ELSE IF ~cfg.null /\ cfg.f["user_avatar"] # ""
         THEN <<cfg.f["user_avatar"]>> ELSE <<"/static/img/user-avatar.svg">>

\* What loadConfig() returns for an outcome: the body of a 2xx response,
\* {} otherwise.
loadConfig(out) ==
    IF out.kind = "ok" THEN out.body ELSE [null |-> FALSE, f |-> NoFields]

\* The configuration request settles: the rest of loadConfig (the body is
\* cached only when the status is 2xx and the body parses), then
\* applyConfig on what it returned.
ConfigResolve(out) ==
    /\ configLoad = "pending"
    /\ configLoad' = "done"
    /\ chatbotConfig' = IF out.kind = "ok" THEN out.body ELSE chatbotConfig
    /\ ui' = applyConfig(loadConfig(out), ui)
    /\ ev' = Ev("config", 0, <<out.kind>>)
    /\ UNCHANGED <<msgText, bubble, elements>>
    /\ UNCHANGED frameVars
    /\ UNCHANGED <<reportVars, chatVars>>

\* ======================================================= script loading

\* Mutant of scriptAlreadyLoaded: the script never takes itself for loaded.
scriptAlreadyLoaded_Never == FALSE

\* if (window.chatbotScriptInitialized)
scriptAlreadyLoaded == chatbotScriptInitialized

\* chatbot.js is evaluated, up to the await of its initialisation function.
\* When the window is marked, the first statement throws and nothing else
\* runs. Otherwise the configuration, the history and the order session are
\* declared anew, the send, keydown and quick-action listeners are
\* registered, the configuration is requested and the window is marked.
ChatScriptEval ==
    /\ IF scriptAlreadyLoaded
       THEN /\ faults' = faults \cup {"Chatbot script already loaded"}
            /\ UNCHANGED <<conversationHistory, orderState, scriptVars,
                           chatbotConfig, configLoad>>
       ELSE /\ chatbotConfig' = [null |-> FALSE, f |-> NoFields]
            /\ conversationHistory' = <<>>
            /\ orderState' = ResetOrderState
            /\ handlerSets' = handlerSets + 1
            /\ configLoad' = "pending"
            /\ chatbotScriptInitialized' = TRUE
            /\ UNCHANGED faults
    /\ ev' = Ev("chatscript", 0, <<>>)
    /\ UNCHANGED <<messages, forms, chats, places, txtDisabled, txtValue,
                   typing, timers>>
    /\ UNCHANGED <<msgText, bubble, elements, ui>>
    /\ UNCHANGED frameVars
    /\ UNCHANGED reportVars

\* ============================================================ main frame

\* Most Turbo fetch requests in one run.
MaxFetches == 3

\* The statuses a Turbo response carries.
Statuses == {200, 302, 404, 500}

\* setMainFrameInteractive(isInteractive): the pointer events of
\* #main-frame, when the document holds it.
setMainFrameInteractive(isInteractive) ==
    IF ~mainFrame THEN mainFrameInteractive ELSE isInteractive

\* mainFrame.style.pointerEvents = 'auto' under if (mainFrame)
pointerEventsAuto == IF mainFrame THEN TRUE ELSE mainFrameInteractive

\* Mutant of scheduleInteractionRestore: the pending timer is not cleared.
scheduleInteractionRestore_NoClear ==
    /\ timerIds' = timerIds + 1
    /\ restoreTimers' = restoreTimers \cup {timerIds'}
    /\ frameInteractionTimer' = timerIds'

\* Mutant of scheduleInteractionRestore: no timer is set.
scheduleInteractionRestore_Never ==
    /\ restoreTimers' = restoreTimers \ {frameInteractionTimer}
    /\ frameInteractionTimer' = 0
    /\ UNCHANGED timerIds

\* scheduleInteractionRestore(): the timer frameInteractionTimer names, if
\* any, is cleared, and a new one is set and named.
scheduleInteractionRestore ==
    /\ timerIds' = timerIds + 1
    /\ restoreTimers' = (restoreTimers \ {frameInteractionTimer})
                           \cup {timerIds'}
    /\ frameInteractionTimer' = timerIds'

\* if (frameInteractionTimer) { clearTimeout(frameInteractionTimer);
\* frameInteractionTimer = null; }
clearInteractionTimer ==
    /\ restoreTimers' = restoreTimers \ {frameInteractionTimer}
    /\ frameInteractionTimer' = 0
    /\ UNCHANGED timerIds

\* What the frame handlers leave alone.
FrameRest ==
    /\ UNCHANGED <<msgText, bubble, elements, configLoad, chatbotConfig, ui,
                   mainFrame>>
    /\ UNCHANGED <<reportVars, chatVars>>

\* turbo:before-fetch-request: a request starts.
BeforeFetchRequest ==
    /\ Len(fetches) < MaxFetches
    /\ fetches' = Append(fetches, "pending")
    /\ mainFrameInteractive' = setMainFrameInteractive(FALSE)
    /\ scheduleInteractionRestore
    /\ ev' = Ev("fetch", Len(fetches) + 1, <<>>)
    /\ FrameRest

\* turbo:before-fetch-response: request r is answered with a status. A 3xx
\* status returns at once.
BeforeFetchResponse(r, status) ==
    /\ r \in 1..Len(fetches) /\ fetches[r] = "pending"
    /\ IF status >= 300 /\ status < 400
       THEN /\ fetches' = [fetches EXCEPT ![r] = "redirected"]
            /\ UNCHANGED <<mainFrameInteractive, frameInteractionTimer,
                           restoreTimers, timerIds>>
       ELSE /\ fetches' = [fetches EXCEPT ![r] = "answered"]
            /\ mainFrameInteractive' = setMainFrameInteractive(TRUE)
            /\ clearInteractionTimer
    /\ ev' = Ev("response", r, <<>>)
    /\ FrameRest

\* turbo:fetch-request-error: request r fails or is cancelled.
FetchRequestError(r) ==
    /\ r \in 1..Len(fetches) /\ fetches[r] = "pending"
    /\ fetches' = [fetches EXCEPT ![r] = "failed"]
    /\ mainFrameInteractive' = setMainFrameInteractive(TRUE)
    /\ clearInteractionTimer
    /\ ev' = Ev("fetcherror", r, <<>>)
    /\ FrameRest

\* turbo:after-frame-render
AfterFrameRender ==
    /\ mainFrameInteractive' = pointerEventsAuto
    /\ clearInteractionTimer
    /\ ev' = Ev("afterframerender", 0, <<>>)
    /\ UNCHANGED fetches
    /\ FrameRest

\* turbo:load, as this script handles it
FrameLoad ==
    /\ mainFrameInteractive' = pointerEventsAuto
    /\ clearInteractionTimer
    /\ ev' = Ev("turboload", 0, <<>>)
    /\ UNCHANGED fetches
    /\ FrameRest

\* turbo:render, as this script handles it
FrameRender ==
    /\ mainFrameInteractive' = setMainFrameInteractive(TRUE)
    /\ clearInteractionTimer
    /\ ev' = Ev("turborender", 0, <<>>)
    /\ UNCHANGED fetches
    /\ FrameRest

\* Restore timer t, set 2000 ms ago and not cleared, fires.
RestoreTimerFire(t) ==
    /\ t \in restoreTimers
    /\ restoreTimers' = restoreTimers \ {t}
    /\ mainFrameInteractive' = setMainFrameInteractive(TRUE)
    /\ frameInteractionTimer' = 0
    /\ ev' = Ev("restore", t, <<>>)
    /\ UNCHANGED <<timerIds, fetches>>
    /\ FrameRest

\* The main frame at rest: interactive, no restore timer, no request.
InitFrameVars ==
    /\ mainFrameInteractive = TRUE
    /\ frameInteractionTimer = 0
    /\ restoreTimers = {}
    /\ timerIds = 0
    /\ fetches = <<>>

\* Rendering and configuration at rest: nothing to render, the
\* configuration request settled without a body.
InitSurfaceVars ==
    /\ mainFrame = TRUE
    /\ InitFrameVars
    /\ msgText = <<>>
    /\ bubble = NoBubble
    /\ elements = ConfigElements
    /\ configLoad = "done"
    /\ chatbotConfig = [null |-> FALSE, f |-> NoFields]
    /\ ui = DefaultUi

InitChatVars ==
    /\ conversationHistory = <<>>
    /\ orderState = ResetOrderState
    /\ messages = <<>>
    /\ forms = <<>>
    /\ chats = <<>>
    /\ places = <<>>
    /\ txtDisabled = FALSE
    /\ txtValue = <<>>
    /\ typing = FALSE
    /\ timers = <<>>
    /\ faults = {}

\* chatbot.js was evaluated once.
InitScriptVars ==
    /\ chatbotScriptInitialized = TRUE
    /\ handlerSets = 1

InitReportVars ==
    /\ clock = 1
    /\ reportsScript \in {"live", "static"}
    /\ nav = "script"
    /\ onReports \in BOOLEAN
    /\ reportsLoadToken = 0
    /\ reportsChartsInitialized = FALSE
    /\ loads = <<>>
    /\ staticRenders = 0
    /\ chartRef = NoCharts
    /\ live = NoLive
    /\ loading = FALSE
    /\ emptyState = AllShown
    /\ summary = 0
    /\ totalRevenueText = "template"
    /\ topCategories = "template"
    /\ reportData = 0
    /\ made = {}
    /\ minted = 0

\* The analytics view as the page is parsed; the chat surface idle.
Init ==
    /\ InitReportVars
    /\ InitChatVars
    /\ InitScriptVars
    /\ InitSurfaceVars
    /\ ev = Ev("init", 0, <<>>)

\* The chat surface after chatbot.js was evaluated, on a page without the
\* analytics view.
InitChat ==
    /\ InitReportVars
    /\ reportsScript = "live"
    /\ ~onReports
    /\ InitChatVars
    /\ InitScriptVars
    /\ InitSurfaceVars
    /\ ev = Ev("init", 0, <<>>)

\* One message about to be posted, of any text.
InitRender ==
    /\ InitReportVars
    /\ reportsScript = "live"
    /\ ~onReports
    /\ InitChatVars
    /\ InitScriptVars
    /\ mainFrame = TRUE
    /\ InitFrameVars
    /\ msgText \in Texts
    /\ bubble = NoBubble
    /\ elements = ConfigElements
    /\ configLoad = "done"
    /\ chatbotConfig = [null |-> FALSE, f |-> NoFields]
    /\ ui = DefaultUi
    /\ ev = Ev("init", 0, <<>>)

\* chatbot.js was just evaluated: chatbotConfig is {}, the configuration
\* request is in flight, the page holds the configurable elements or not.
InitConfig ==
    /\ InitReportVars
    /\ reportsScript = "live"
    /\ ~onReports
    /\ InitChatVars
    /\ InitScriptVars
    /\ mainFrame = TRUE
    /\ InitFrameVars
    /\ msgText = <<>>
    /\ bubble = NoBubble
    /\ elements \in SUBSET ConfigElements
    /\ configLoad = "pending"
    /\ chatbotConfig = [null |-> FALSE, f |-> NoFields]
    /\ ui = DefaultUi
    /\ ev = Ev("init", 0, <<>>)

NextReports ==
    \/ Tick
    \/ ScriptEval
    \/ TurboLoad
    \/ \E p \in BOOLEAN : TurboFrameLoad(p)
    \/ TurboBeforeCache
    \/ \E p \in BOOLEAN : TurboRender(p)
    \/ \E i \in 1..MaxLoads, res \in LoadOutcomes : Resolve(i, res)

SpecReports == Init /\ [][NextReports]_vars

\* The texts a user sends: those that are not blank.
Spoken == {v \in Strings : Trim(v) # <<>>}

NextChat ==
    \/ \E v \in Spoken : Enter(v)
    \/ \E key \in QuickClicked : Quick(key)
    \/ TimerFire
    \/ \E i \in 1..MaxUtterances, out \in ChatOutcomes : ChatResolve(i, out)
    \/ \E k \in 1..MaxUtterances, n \in Strings, t \in Strings : ConfirmClick(k, n, t)
    \/ \E j \in 1..MaxUtterances, out \in PlaceOutcomes : PlaceResolve(j, out)

SpecChat == InitChat /\ [][NextChat]_vars

\* The configuration answers the chat window is given.
WindowConfigs ==
    {out \in ConfigOutcomes :
        \/ out.kind = "status"
        \/ /\ out.kind = "ok" /\ ~out.body.null
           /\ \A f \in Fields : out.body.f[f] = "v"}

\* The chat answers the chat window is given: a reply with and without a
\* text, a complete order, a rejection.
WindowChatOutcomes ==
    {out \in ChatOutcomes :
        /\ out.ok \/ out.rejected
        /\ out.order_ready =>
              out.order_items = <<Burger>> /\ out.order_total # Undefined}

\* The page before chatbot.js is evaluated: no listeners, no configuration.
InitWindow ==
    /\ InitReportVars
    /\ reportsScript = "live"
    /\ ~onReports
    /\ InitChatVars
    /\ chatbotScriptInitialized = FALSE
    /\ handlerSets = 0
    /\ InitSurfaceVars
    /\ ev = Ev("init", 0, <<>>)

\* The chat window: the script is loaded any number of times; once its
\* listeners are registered the controls are used, with or without text.
NextWindow ==
    \/ ChatScriptEval
    \/ \E out \in WindowConfigs : ConfigResolve(out)
    \/ \E v \in Strings : handlerSets > 0 /\ Send(v)
    \/ \E v \in Strings : handlerSets > 0 /\ Enter(v)
    \/ \E key \in {"order", "specials"} : handlerSets > 0 /\ Quick(key)
    \/ TimerFire
    \/ \E i \in 1..MaxUtterances, out \in WindowChatOutcomes : ChatResolve(i, out)

SpecWindow == InitWindow /\ [][NextWindow]_vars

\* A page with or without #main-frame, no Turbo request made yet.
InitFrame ==
    /\ InitReportVars
    /\ reportsScript = "live"
    /\ ~onReports
    /\ InitChatVars
    /\ InitScriptVars
    /\ msgText = <<>>
    /\ bubble = NoBubble
    /\ elements = ConfigElements
    /\ configLoad = "done"
    /\ chatbotConfig = [null |-> FALSE, f |-> NoFields]
    /\ ui = DefaultUi
    /\ mainFrame \in BOOLEAN
    /\ InitFrameVars
    /\ ev = Ev("init", 0, <<>>)

NextFrame ==
    \/ BeforeFetchRequest
    \/ \E r \in 1..MaxFetches, status \in Statuses : BeforeFetchResponse(r, status)
    \/ \E r \in 1..MaxFetches : FetchRequestError(r)
    \/ AfterFrameRender
    \/ FrameLoad
    \/ FrameRender
    \/ \E t \in 1..MaxFetches : RestoreTimerFire(t)

SpecFrame == InitFrame /\ [][NextFrame]_vars

\* A timer that is set and not cleared fires.
SpecFrameFair ==
    SpecFrame /\ WF_vars(\E t \in 1..MaxFetches : RestoreTimerFire(t))

NextRender ==
    \/ RenderUserBubble
    \/ RenderBotBubble

SpecRender == InitRender /\ [][NextRender]_vars

NextConfig == \E out \in ConfigOutcomes : ConfigResolve(out)

SpecConfig == InitConfig /\ [][NextConfig]_vars
\* ================================================================= claims
\* ------------------------------------------------------ analytics view

\* What a load's result is applied to: summary, report data, categories,
\* total, placeholders and charts.
View == <<summary, reportData, topCategories, totalRevenueText, emptyState,
          chartRef, live>>

\* Load i settles in this step.
Settles(i) == loads[i].res = "pending" /\ loads'[i].res # "pending"

\* C1: a successfully resolved order list is applied to the page exactly
\* when the token captured at launch is still window.reportsLoadToken: with
\* another token nothing of the view changes (a late T1 never overwrites
\* what T2 rendered); with the current token a non-empty list becomes the
\* report data and, on the analytics view, the summary and the charts, and
\* an empty list puts the view into the no-data state.
C1_AppliedIffTokenCurrent ==
    [][\A i \in 1..Len(loads) :
         (Settles(i) /\ loads'[i].res \in {"data", "empty"}) =>
            /\ loads[i].token # reportsLoadToken => UNCHANGED View
            /\ (loads[i].token = reportsLoadToken /\ loads'[i].res = "data") =>
                  /\ reportData' = i
                  /\ onReports => /\ summary' = i
                                  /\ \A t \in Targets : chartRef'[t] = i
            /\ (loads[i].token = reportsLoadToken /\ loads'[i].res = "empty"
                  /\ onReports) =>
                  /\ totalRevenueText' = "nodata"
                  /\ emptyState' = AllEmpty]_vars

\* C1 witness: the load with the smaller token brought data after the one
\* with the larger token had rendered; the page still shows the later load.
C1_Witness ==
    /\ Len(loads) >= 2
    /\ loads[1].token < loads[2].token
    /\ loads[1].res = "data"
    /\ loads[2].res = "data"
    /\ ev.kind = "resolve" /\ ev.id = 1
    /\ onReports
    /\ reportData = 2 /\ summary = 2
    /\ \A t \in Targets : chartRef[t] = 2

\* C3: each chart target has at most one live chart instance at any
\* instant.
C3_OneLiveChartPerTarget ==
    \A t \in Targets : Cardinality(live[t]) <= 1

\* C3 witness: a second chart set was created, and only it is live.
C3_Witness ==
    /\ Cardinality(made) >= 2
    /\ \A t \in Targets : live[t] = {chartRef[t]} /\ chartRef[t] >= 2

\* C6: a load whose token is no longer current changes nothing visible,
\* whatever its outcome: not the view, not the loading indicator.
C6_StaleLoadNoEffect ==
    [][\A i \in 1..Len(loads) :
         (Settles(i) /\ loads[i].token # reportsLoadToken) =>
            UNCHANGED <<View, loading>>]_vars

\* C10: the tokens minted are strictly increasing in the order they were
\* minted.
C10_TokensStrictlyIncreasing ==
    \A i, j \in 1..Len(loads) : i < j => loads[i].token < loads[j].token

\* C11: at most one token is minted, and one data load launched, in one
\* page activation (the initial document load, one Turbo visit, or one
\* main-frame transition).
C11_OneTokenPerActivation == minted <= 1

\* C12: chart teardown is idempotent. No window reference ever points to a
\* chart that was destroyed, so no teardown destroys a chart a second
\* time; after destroyReportsCharts or the turbo:before-cache teardown no
\* target is left to call destroy() on, the referenced charts are no longer
\* live, and either teardown applied again, in either order, changes nothing.
C12_TeardownIdempotent ==
    /\ \A t \in Targets : chartRef[t] # 0 => chartRef[t] \in live[t]
    /\ LET d == destroyReportsCharts(Charts)
           b == beforeCacheDestroy(Charts)
       IN /\ destroyCalls(d) = {}
          /\ destroyCalls(b) = {}
          /\ \A t \in destroyCalls(Charts) :
                chartRef[t] \notin d.live[t] /\ chartRef[t] \notin b.live[t]
          /\ destroyReportsCharts(d) = d
          /\ beforeCacheDestroy(d) = d
          /\ destroyReportsCharts(b) = b
          /\ beforeCacheDestroy(b) = b

\* C12 witness: the charts of load 1 were destroyed when load 2 was
\* launched, and the turbo:before-cache teardown has just run over the
\* nulled references.
C12_Witness ==
    /\ ev.kind = "beforecache"
    /\ Len(loads) >= 2
    /\ loads[1].token < loads[2].token
    /\ loads[2].res = "pending"
    /\ made = {1}
    /\ live = NoLive
    /\ chartRef = NoCharts

\* The page was evicted and no token was minted since: turbo:before-cache
\* has run, and the page rendered after it, if any, has not run
\* initReports yet.
Evicted == nav = "leaving" \/ (nav = "rendered" /\ minted = 0)

\* C20: once turbo:before-cache has torn the charts down, a load that was
\* in flight creates no chart and applies no result until a new token is
\* minted.
C20_NoChartsAfterEviction ==
    [][\A i \in 1..Len(loads) :
         (Settles(i) /\ Evicted) =>
            UNCHANGED <<chartRef, live, reportData, summary>>]_vars

\* C21: whenever the no-data placeholder is shown for a chart target, no
\* chart instance is live on that target.
C21_PlaceholderOverNoChart ==
    \A t \in Targets : emptyState[t] => live[t] = {}
\* -------------------------------------------------------- chat surface

\* The placement requests still in flight.
InFlight(ps) == {j \in 1..Len(ps) : ps[j].st = "pending"}

\* C2: one click on a confirm control issues at most one order-placement
\* request, and none is issued while another is still in flight.
C2_NoDuplicateSubmission ==
    [][/\ Len(places') <= Len(places) + 1
       /\ Len(places') > Len(places) => InFlight(places) = {}]_vars

\* Placement request j fails in this step.
PlaceFails(j) ==
    places[j].st = "pending" /\ places'[j].st \in {"error", "noerror", "reject"}

\* C4: after a failed placement the items are retained and the confirm
\* control is enabled again.
C4_RetryAfterFailure ==
    [][\A j \in 1..Len(places) :
         PlaceFails(j) =>
            /\ orderState'.items = orderState.items
            /\ ~forms'[1].disabled]_vars

\* C5: a confirm click with an empty item list, a blank name or a blank
\* table number issues no placement request and leaves the order session as
\* it was.
C5_RejectedWithoutRequest ==
    [][(ev'.kind = "confirm" /\ (orderState.items = <<>> \/ ev'.arg[1])) =>
          /\ places' = places
          /\ orderState' = orderState]_vars

\* C5 witness: the enabled confirm button of the first form was clicked
\* with a blank field; the session holds the items and no name, and nothing
\* was sent.
C5_Witness ==
    /\ ev.kind = "confirm" /\ ev.id = 1 /\ ev.arg[1]
    /\ forms # <<>> /\ ~forms[1].disabled
    /\ orderState.items # <<>>
    /\ orderState.customerName = <<>>
    /\ places = <<>>

\* C7: a chat reply that signals order-readiness (order_ready, a non-empty
\* item list and a total) makes its caller render the confirmation form,
\* whichever handler called, and no exception is raised in its place.
C7_OrderReadyRendersForm ==
    [][(ev'.kind = "chat" /\ ~ev'.arg[1] /\ ev'.arg[2] /\ ev'.arg[3]
          /\ ev'.arg[4] /\ chats' # chats) =>
          /\ Len(forms') = Len(forms) + 1
          /\ faults' = faults]_vars

\* Placement request j succeeds in this step.
PlaceSucceeds(j) == places[j].st = "pending" /\ places'[j].st = "ok"

\* C8: when a placement succeeds the session is reset (no items, blank name
\* and table, not collecting), the conversation history is empty and a bot
\* message carrying the server's message is appended.
C8_SuccessResetsSession ==
    [][\A j \in 1..Len(places) :
         PlaceSucceeds(j) =>
            /\ orderState' = [items |-> <<>>, customerName |-> <<>>,
                              tableNumber |-> <<>>, isCollectingOrder |-> FALSE]
            /\ conversationHistory' = <<>>
            /\ messages' = Append(messages,
                   [from |-> "bot",
                    text |-> <<"(check mark)", "Order #551 placed">>])]_vars

\* C8 witness: a placement has just succeeded on a conversation that had a
\* history.
C8_Witness ==
    /\ ev.kind = "place" /\ ev.arg = <<"ok">>
    /\ orderState.items = <<>> /\ orderState.customerName = <<>>
    /\ conversationHistory = <<>>
    /\ messages[Len(messages)].text = <<"(check mark)", "Order #551 placed">>
    /\ \E i \in 1..Len(chats) : chats[i].st = "done"

\* Sum of unit price times quantity over the items.
RECURSIVE LinesTotal(_)
LinesTotal(items) ==
    IF items = <<>> THEN 0
    ELSE Head(items).price * Head(items).quantity + LinesTotal(Tail(items))

\* C9: every placement request carries the session's items and, as
\* total_amount, the sum of price times quantity over them, whatever total
\* the chat endpoint sent and the form shows; two requests with the same
\* items carry the same total.
C9_TotalRecomputed ==
    [][/\ \A j \in (Len(places) + 1)..Len(places') :
            /\ places'[j].items = orderState.items
            /\ places'[j].total_amount = LinesTotal(orderState.items)
       /\ \A j, k \in 1..Len(places') :
            places'[j].items = places'[k].items =>
               places'[j].total_amount = places'[k].total_amount]_vars

\* C9 witness: a request was sent for items that add up to 29.48 while the
\* form that showed them said 25.98.
C9_Witness ==
    /\ places # <<>>
    /\ places[1].items = <<Fries, Burger>>
    /\ places[1].total_amount = 2948
    /\ \E k \in 1..Len(forms) :
          forms[k].items = <<Fries, Burger>> /\ forms[k].total = 2598

\* A chat request settles in this step: ev' names it and its outcome.
ChatSettles == ev'.kind = "chat" /\ chats' # chats

\* One row was appended to the conversation, and it is a bot message.
BotMessageAdded ==
    /\ Len(messages') = Len(messages) + 1
    /\ SubSeq(messages', 1, Len(messages)) = messages
    /\ messages'[Len(messages')].from = "bot"

\* C13: when the chat request of a sent message settles, whatever it
\* settles with, a bot message or a confirmation form is shown and the text
\* input is enabled again. (Nothing but this continuation of the send
\* handler enables the input, so an input it leaves disabled stays so.)
C13_SendAlwaysRecovers ==
    [][(ChatSettles /\ chats[ev'.id].origin = "send") =>
          /\ ~txtDisabled'
          /\ BotMessageAdded \/ Len(forms') = Len(forms) + 1]_vars

\* C14: a confirmation form is rendered only while the session is
\* collecting an order (the user has signalled order intent), and a
\* placement request is issued only while a confirmation awaits: a form is
\* shown, its confirm control is enabled and no placement is in flight.
C14_SessionStateOrder ==
    [][/\ Len(forms') > Len(forms) => orderState.isCollectingOrder
       /\ Len(places') > Len(places) =>
             /\ forms # <<>>
             /\ ~forms[1].disabled
             /\ InFlight(places) = {}
             /\ Len(places') = Len(places) + 1]_vars

\* C15: a confirmation form is rendered only for a reply that carries
\* order_ready, a non-empty item list and a total; a reply missing any of
\* the three is rendered as a plain bot message.
C15_FormOnlyForCompleteOrder ==
    [][ChatSettles =>
          LET complete == /\ ~ev'.arg[1] /\ ev'.arg[2]
                          /\ ev'.arg[3] /\ ev'.arg[4]
          IN /\ Len(forms') > Len(forms) => complete
             /\ ~complete => (forms' = forms /\ BotMessageAdded)]_vars

\* C16: a confirm click that is refused (empty item list, blank name or
\* blank table number) appends a bot message to the conversation and raises
\* no exception.
C16_RefusalIsBotMessage ==
    [][(ev'.kind = "confirm" /\ ev'.id = 1
          /\ (orderState.items = <<>> \/ ev'.arg[1])) =>
          /\ BotMessageAdded
          /\ faults' = faults]_vars

\* C17: a chat request that ends in a rejection or in a non-2xx status is
\* answered with one of the two generic bot messages, renders no form and
\* leaves the order session as it was.
C17_ChatFailureGenericMessage ==
    [][(ChatSettles /\ (ev'.arg[1] \/ ~ev'.arg[5])) =>
          /\ BotMessageAdded
          /\ messages'[Len(messages')].text \in {ChatError, Sorry}
          /\ forms' = forms
          /\ orderState' = orderState]_vars

\* C18: when a placement fails, the bot message shows the server's error if
\* the failure response carries one, and the generic failure message
\* otherwise.
C18_PlacementFailureMessage ==
    [][\A j \in 1..Len(places) :
         PlaceFails(j) =>
            /\ BotMessageAdded
            /\ messages'[Len(messages')].text =
                  IF places'[j].st = "error"
                  THEN <<"Order failed:", "Kitchen closed">>
                  ELSE <<"Failed to place order. Please try again.">>]_vars

\* C19: at no instant are two timers pending against the typing indicator.
C19_OneTypingTimer == Len(timers) <= 1

\* A quick-action button was clicked in this step: ev' names its key.
QuickStep == ev'.kind = "quick" /\ messages' # messages

\* C22: a quick-action click is answered by the canned generator exactly
\* when one is registered for its key, and by the chat endpoint otherwise; a
\* canned reply issues no chat request and leaves the conversation history
\* alone; and each click gets exactly one bot reply: one row when its timer
\* fires, one row when its chat request settles.
C22_QuickActionRouting ==
    [][/\ QuickStep =>
            IF ev'.arg[1] \in CannedKeys
            THEN /\ timers' = Append(timers, canned(ev'.arg[1]))
                 /\ chats' = chats
                 /\ conversationHistory' = conversationHistory
            ELSE /\ timers' = timers
                 /\ Len(chats') = Len(chats) + 1
                 /\ chats'[Len(chats')].origin = "quick"
       /\ (ev'.kind = "timer" /\ timers' # timers) =>
            /\ BotMessageAdded
            /\ messages'[Len(messages')].text = Head(timers)
       /\ (ChatSettles /\ chats[ev'.id].origin = "quick") =>
            BotMessageAdded]_vars

\* C23: the typing indicator is shown for the whole time a chat request is
\* pending.
C23_TypingWhilePending ==
    (\E i \in 1..Len(chats) : chats[i].st = "pending") => typing

\* The reply carries order_ready, a non-empty item list and a total.
CompleteOrder == ~ev'.arg[1] /\ ev'.arg[2] /\ ev'.arg[3] /\ ev'.arg[4]

\* C28: the order scenario, step by step. The Order quick action makes the
\* session collecting; a complete order-ready reply to a sent message then
\* renders the first form, enabled, and stores its items; confirming that
\* form with a name and a table number issues exactly one placement request
\* carrying them and disables the confirm control; and when that placement
\* succeeds the session is idle with no items, the history is empty and the
\* success message is the last entry of the message log.
C28_OrderScenario ==
    [][/\ (QuickStep /\ ev'.arg[1] = "order") => orderState'.isCollectingOrder
       /\ (ChatSettles /\ CompleteOrder /\ chats[ev'.id].origin = "send"
             /\ orderState.isCollectingOrder /\ forms = <<>>) =>
            /\ Len(forms') = 1
            /\ ~forms'[1].disabled
            /\ orderState'.items = forms'[1].items
            /\ orderState'.items # <<>>
            /\ orderState'.isCollectingOrder
            /\ places' = places
       /\ (ev'.kind = "confirm" /\ ev'.id = 1 /\ ~ev'.arg[1]
             /\ Len(forms) = 1 /\ places = <<>>) =>
            /\ forms'[1].disabled
            /\ Len(places') = 1
            /\ places'[1].st = "pending"
            /\ places'[1].items = forms[1].items
            /\ places'[1].customer_name = orderState'.customerName
            /\ places'[1].customer_name # <<>>
            /\ places'[1].table_number # <<>>
       /\ (Len(places) = 1 /\ PlaceSucceeds(1)) =>
            /\ orderState' = ResetOrderState
            /\ conversationHistory' = <<>>
            /\ messages'[Len(messages')] =
                  [from |-> "bot",
                   text |-> <<"(check mark)", "Order #551 placed">>]]_vars

\* C28 witness: the scenario has run to its end: Order quick action and its
\* canned reply, one sent message answered by the form, one placement
\* confirmed and succeeded.
C28_Witness ==
    /\ messages = <<[from |-> "user", text |-> Label("order")],
                    [from |-> "bot", text |-> canned("order")],
                    [from |-> "user", text |-> <<"A">>],
                    [from |-> "bot",
                     text |-> <<"(check mark)", "Order #551 placed">>]>>
    /\ Len(forms) = 1 /\ forms[1].disabled
    /\ Len(places) = 1 /\ places[1].st = "ok"
    /\ places[1].customer_name = <<"A">>
    /\ orderState = ResetOrderState
    /\ conversationHistory = <<>>

\* C29: a placement request issued by confirming a form carries exactly the
\* items that form displays, and while a form awaits confirmation (its
\* confirm control is enabled) the session's item list equals the items the
\* form displays.
C29_ItemsSentAreItemsShown ==
    [][/\ (ev'.kind = "confirm" /\ Len(places') > Len(places)) =>
            \A j \in (Len(places) + 1)..Len(places') :
               places'[j].items = forms[ev'.id].items
       /\ \A k \in 1..Len(forms') :
            ~forms'[k].disabled => orderState'.items = forms'[k].items]_vars

\* C30: the conversation history starts with a user entry and strictly
\* alternates user, assistant.
C30_HistoryAlternates ==
    \A k \in 1..Len(conversationHistory) :
       conversationHistory[k].role =
          IF k % 2 = 1 THEN "user" ELSE "assistant"

\* ---------------------------------------------------- message rendering

\* The contents of the code spans of a formatted text, in order.
RECURSIVE codeSpans(_)
codeSpans(h) ==
    LET o == NextIndex(h, 1, "<code>")
        c == IF o = 0 THEN 0 ELSE NextIndex(h, o + 1, "</code>")
    IN IF c = 0 THEN <<>>
       ELSE <<SubSeq(h, o + 1, c - 1)>> \o codeSpans(SubSeq(h, c + 1, Len(h)))

\* C24: code is applied before bold and italics, and what a code span
\* holds is emitted as it stands: every code span of the formatted text
\* holds what it held right after the code step, asterisks included.
C24_CodeSpansNotReinterpreted ==
    bubble.from = "user" =>
       codeSpans(bubble.html) =
          codeSpans(lineBreaks(withCode(escapeHtml(msgText))))

\* The indices at which s holds character d.
Occurrences(s, d) == {k \in 1..Len(s) : s[k] = d}

\* The code, bold and italic markup of a formatted text.
Markup(h) ==
    {h[k] : k \in 1..Len(h)} \cap
       {"<code>", "</code>", "<strong>", "</strong>", "<em>", "</em>"}

\* A double asterisk, text without asterisks, and a single asterisk; no
\* other delimiter.
DoubleClosedBySingle(t) ==
    /\ Occurrences(t, "backtick") = {}
    /\ \E i \in 1..Len(t), j \in 1..Len(t) :
          /\ j > i + 2
          /\ Occurrences(t, "*") = {i, i + 1, j}

\* C26: an unmatched delimiter is literal text. A text with a single
\* backtick gets no code markup and keeps the backtick; a text with a single
\* asterisk gets no bold or italic markup and keeps the asterisk; a double
\* asterisk closed by a single one is emitted as it stands, without markup.
C26_UnmatchedDelimitersLiteral ==
    bubble.from = "user" =>
       /\ Cardinality(Occurrences(msgText, "backtick")) = 1 =>
             /\ Markup(bubble.html) \cap {"<code>", "</code>"} = {}
             /\ Cardinality(Occurrences(bubble.html, "backtick")) = 1
       /\ Cardinality(Occurrences(msgText, "*")) = 1 =>
             /\ Markup(bubble.html) \cap
                   {"<strong>", "</strong>", "<em>", "</em>"} = {}
             /\ Cardinality(Occurrences(bubble.html, "*")) = 1
       /\ DoubleClosedBySingle(msgText) =>
             /\ Markup(bubble.html) = {}
             /\ bubble.html = lineBreaks(escapeHtml(msgText))

\* The line breaks of a bot text: the newlines and the literal <br>.
Breaks(t) == Occurrences(t, "\n") \cup Occurrences(t, "<br>")

\* The m-th line of a bot text: what lies between its (m-1)-th and its
\* m-th line break.
LineOf(t, m) ==
    LET before == {b \in Breaks(t) : Cardinality({x \in Breaks(t) : x < b}) = m - 2}
        after == {b \in Breaks(t) : Cardinality({x \in Breaks(t) : x < b}) = m - 1}
        from == IF before = {} THEN 1 ELSE (CHOOSE b \in before : TRUE) + 1
        to == IF after = {} THEN Len(t) ELSE (CHOOSE b \in after : TRUE) - 1
    IN Trim(SubSeq(t, from, to))

\* The lines of a bot text that are not blank, by their number.
NonBlankLines(t) ==
    {m \in 1..(Cardinality(Breaks(t)) + 1) : LineOf(t, m) # <<>>}

\* The n-th non-blank line of a bot text.
NthNonBlank(t, n) ==
    LineOf(t, CHOOSE m \in NonBlankLines(t) :
                 Cardinality({x \in NonBlankLines(t) : x < m}) = n - 1)

\* The indices of a line at which a media reference starts.
MediaStarts(line) == {i \in 1..Len(line) : urlLength(line, i) > 0}

\* C25: a bot message is rendered as one node per non-blank line, in line
\* order: a media card whose image source is the first URL matched in the
\* line (without trailing punctuation) when the line holds a media
\* reference, the line as formatted text otherwise; and as the whole
\* message formatted when no line gives a node.
C25_OneNodePerLine ==
    bubble.from = "bot" =>
       IF NonBlankLines(msgText) = {}
       THEN /\ Len(bubble.nodes) = 1
            /\ bubble.nodes[1].kind = "html"
            /\ bubble.nodes[1].html = formatMessage(msgText)
       ELSE /\ Len(bubble.nodes) = Cardinality(NonBlankLines(msgText))
            /\ \A n \in 1..Len(bubble.nodes) :
                  LET line == NthNonBlank(msgText, n)
                      node == bubble.nodes[n]
                  IN IF MediaStarts(line) = {}
                     THEN /\ node.kind = "line"
                          /\ node.html = formatMessage(line)
                     ELSE LET i == CHOOSE i \in MediaStarts(line) :
                                      \A k \in MediaStarts(line) : i <= k
                          IN /\ node.kind = "card"
                             /\ node.src = stripPunctuation(
                                   SubSeq(line, i, i + urlLength(line, i) - 1))

\* C25 witness: the bot message with bold and code on its first line and
\* an image URL on its second was rendered as a text node and a card.
C25_Witness ==
    /\ bubble.from = "bot"
    /\ msgText = <<"*", "*", "a", "*", "*", " ", "backtick", "a", "backtick",
                   "\n", "http://", "a", ".png">>
    /\ Len(bubble.nodes) = 2
    /\ bubble.nodes[1].kind = "line"
    /\ bubble.nodes[1].html = <<"<strong>", "a", "</strong>", " ",
                                "<code>", "a", "</code>">>
    /\ bubble.nodes[2].kind = "card"
    /\ bubble.nodes[2].src = <<"http://", "a", ".png">>

\* ---------------------------------------------------------- configuration

\* The field is absent from the configuration.
Absent(cfg, field) == cfg.null \/ cfg.f[field] = ""

\* C27: when the configuration request settles, each aspect whose field is
\* absent stays at its default (accent, menu preview, name, font, the two
\* avatars), and a failed load (network error, non-2xx status, unparsable
\* body) leaves the cached configuration and every aspect as they were.
C27_AbsentFieldKeepsDefault ==
    [][(ev'.kind = "config" /\ configLoad' # configLoad) =>
          IF ev'.arg[1] # "ok"
          THEN /\ chatbotConfig' = chatbotConfig
               /\ ui' = ui
          ELSE /\ Absent(chatbotConfig', "color_hex") =>
                     ui'.accent = DefaultUi.accent
               /\ Absent(chatbotConfig', "menu_text") =>
                     ui'.previewMenu = DefaultUi.previewMenu
               /\ Absent(chatbotConfig', "establishment_name") =>
                     ui'.restoName = DefaultUi.restoName
               /\ Absent(chatbotConfig', "font_family") =>
                     ui'.fontFamily = DefaultUi.fontFamily
               /\ Absent(chatbotConfig', "chatbot_avatar") =>
                     avatarSrc(chatbotConfig', "bot") =
                        <<"/static/img/bot-avatar.svg">>
               /\ Absent(chatbotConfig', "user_avatar") =>
                     avatarSrc(chatbotConfig', "user") =
                        <<"/static/img/user-avatar.svg">>]_vars

\* C27 witness: a configuration with accent colour and name but without
\* font family and menu text was applied: the first two aspects changed,
\* the other two are at their defaults.
C27_Witness ==
    /\ ev.kind = "config" /\ ev.arg = <<"ok">>
    /\ elements = ConfigElements
    /\ ~chatbotConfig.null
    /\ chatbotConfig.f["font_family"] = ""
    /\ chatbotConfig.f["menu_text"] = ""
    /\ ui.accent = <<"v">>
    /\ ui.restoName = <<"v", " - A.I Chatbot">>
    /\ ui.fontFamily = <<"default">>
    /\ ui.previewMenu = <<"default">>

\* ------------------------------------------------- conversation and input

\* s is t, or t with entries appended.
Extends(s, t) == Len(s) >= Len(t) /\ SubSeq(s, 1, Len(t)) = t

\* C31: the conversation history is cleared only by a successful order
\* placement: every other step leaves it as it was or appends to it.
C31_HistoryClearedOnlyBySuccess ==
    [][\/ \E j \in 1..Len(places) : PlaceSucceeds(j)
       \/ Extends(conversationHistory', conversationHistory)]_vars

\* C31 witness: a placement has just failed on a conversation with two
\* exchanges, and the history still holds them.
C31_Witness ==
    /\ ev.kind = "place" /\ ev.arg # <<"ok">>
    /\ Len(conversationHistory) >= 4

\* C32: each chat request carries, as history, the conversation history as
\* it was before the current user message was added, and the message in its
\* own field; the message is the one just posted for the user.
C32_HistorySentExcludesCurrent ==
    [][Len(chats') > Len(chats) =>
          /\ Len(chats') = Len(chats) + 1
          /\ chats'[Len(chats')].history = conversationHistory
          /\ chats'[Len(chats')].message = messages'[Len(messages')].text
          /\ conversationHistory' =
                Append(conversationHistory,
                       [role |-> "user",
                        content |-> chats'[Len(chats')].message])]_vars

\* C32 witness: two chat requests are in flight; the second was launched
\* before the first resolved and carries the first message as its history.
C32_Witness ==
    /\ Len(chats) = 2
    /\ chats[1].st = "pending" /\ chats[2].st = "pending"
    /\ chats[1].history = <<>>
    /\ chats[2].history = <<[role |-> "user", content |-> chats[1].message]>>
    /\ Len(conversationHistory) = 2

\* The requests launched by the send control that are in flight.
SentInFlight(cs) ==
    {i \in 1..Len(cs) : cs[i].origin = "send" /\ cs[i].st = "pending"}

\* C33: at most one request launched by the send control is in flight; while
\* one is, the input is disabled and empty, and a click on send launches no
\* request.
C33_OneSendInFlight ==
    [][/\ Cardinality(SentInFlight(chats')) <= 1
       /\ SentInFlight(chats') # {} => txtDisabled' /\ txtValue' = <<>>
       /\ (SentInFlight(chats) # {} /\ ev'.kind = "send") =>
              /\ chats' = chats
              /\ messages' = messages
              /\ conversationHistory' = conversationHistory]_vars

\* C33 witness: send has just been clicked again while the request of an
\* accepted send is in flight.
C33_Witness ==
    /\ ev = Ev("send", 0, <<>>)
    /\ SentInFlight(chats) # {}
    /\ txtDisabled

\* C34: chatbot.js takes effect at most once per window: its listeners are
\* registered at most once, and evaluating it in a window it has marked
\* registers nothing and leaves the order session, the conversation history
\* and the cached configuration as they were.
C34_ScriptTakesEffectOnce ==
    [][/\ handlerSets' <= 1
       /\ (chatbotScriptInitialized /\ ev'.kind = "chatscript") =>
              /\ handlerSets' = handlerSets
              /\ chatbotScriptInitialized'
              /\ orderState' = orderState
              /\ conversationHistory' = conversationHistory
              /\ chatbotConfig' = chatbotConfig
              /\ configLoad' = configLoad]_vars

\* C34 witness: the script has just been evaluated again in a window that
\* holds a conversation, an order session being collected and a cached
\* configuration.
C34_Witness ==
    /\ ev.kind = "chatscript"
    /\ "Chatbot script already loaded" \in faults
    /\ handlerSets = 1
    /\ conversationHistory # <<>>
    /\ orderState.isCollectingOrder
    /\ chatbotConfig.f["user_avatar"] = "v"

\* ------------------------------------------------------------ main frame

\* C35: whenever the main frame is not interactive, it becomes interactive
\* again.
C35_InteractionRestored == ~mainFrameInteractive ~> mainFrameInteractive

\* C35 witness: a 3xx response has just been handled while another request
\* is in flight, and the main frame is not interactive.
C35_Witness ==
    /\ ev.kind = "response"
    /\ fetches[ev.id] = "redirected"
    /\ \E r \in 1..Len(fetches) : fetches[r] = "pending"
    /\ ~mainFrameInteractive

\* C36: once no load is pending the loading indicator is hidden.
C36_LoadingHiddenWhenIdle ==
    (\A i \in 1..Len(loads) : loads[i].res # "pending") => ~loading

\* C36 witness: the last pending load has just settled, stale, on the
\* analytics view, after another load, and the indicator is hidden.
C36_Witness ==
    /\ ev.kind = "resolve"
    /\ onReports
    /\ Len(loads) >= 2
    /\ \A i \in 1..Len(loads) : loads[i].res # "pending"
    /\ loads[ev.id].token # reportsLoadToken
    /\ ~loading

\* C37: at most one restore timer is pending, and frameInteractionTimer
\* names it: it is null exactly when none is pending.
C37_OneRestoreTimer ==
    /\ Cardinality(restoreTimers) <= 1
    /\ (frameInteractionTimer # 0) <=> (restoreTimers # {})
    /\ restoreTimers \subseteq {frameInteractionTimer}

\* C37 witness: a second request has just started while the first is in
\* flight, and the one pending timer is the one just set.
C37_Witness ==
    /\ ev.kind = "fetch"
    /\ Len(fetches) = 2
    /\ fetches[1] = "pending"
    /\ timerIds = 2
    /\ restoreTimers = {2}
    /\ frameInteractionTimer = 2
====
